---- MODULE Spec2Model ----
(***************************************************************************)
(* Model of djangojs/templatetags/js.py: the verbatim block extractor      *)
(* (verbatim_tags, VerbatimNode.render, verbatim) and the asset-tag        *)
(* helpers (javascript, js_lib, _boolean, jquery_js, django_js,            *)
(* django_js_init).                                                        *)
(*                                                                         *)
(* Strings are sequences of symbols; a symbol is a chunk of characters     *)
(* without whitespace, or the single blank " ".                            *)
(***************************************************************************)
EXTENDS Integers, Sequences, FiniteSets, TLC

VARIABLES tokens, token, text_and_nodes, node, pc, error, output,
          orig, lookups, compiled, ate,
          call, ret

vars == <<tokens, token, text_and_nodes, node, pc, error, output,
          orig, lookups, compiled, ate, call, ret>>

vvars == <<tokens, token, text_and_nodes, node, pc, error, output,
           orig, lookups, compiled, ate>>

(***************************************************************************)
(* Bounds                                                                  *)
(***************************************************************************)
MaxTokens == 3

(***************************************************************************)
(* Tokens of the host template engine                                      *)
(***************************************************************************)
TOKEN_TEXT == "text"
TOKEN_VAR == "var"
TOKEN_BLOCK == "block"
TOKEN_COMMENT == "comment"

\* the end marker verbatim() passes to verbatim_tags
endtagname == <<"endverbatim">>

\* token.contents values the lexer can hand over
Payloads ==
    { <<>>, <<" ">>, <<"endverbatim">>, <<"csrf_token">>,
      <<"trans", " ", "hi">>, <<"nope">>, <<"a">> }

Token(type, contents) == [token_type |-> type, contents |-> contents]

TokenSet ==
    { Token(ty, p) : ty \in {TOKEN_TEXT, TOKEN_VAR, TOKEN_BLOCK}, p \in Payloads }
        \cup { Token(TOKEN_COMMENT, <<>>) }

RECURSIVE SeqsUpTo(_, _)
SeqsUpTo(S, n) ==
    IF n = 0 THEN { <<>> }
    ELSE LET shorter == SeqsUpTo(S, n - 1)
         IN  shorter \cup { Append(s, x) : s \in { t \in shorter : Len(t) = n - 1 }, x \in S }

\* parser.tags: the names with a registered compile function
tags == { <<"csrf_token">>, <<"trans">> }

\* the render contexts a VerbatimNode is rendered with
Contexts == { "c1", "c2" }

(***************************************************************************)
(* str.split(): the maximal runs of non-blank symbols                      *)
(***************************************************************************)
RECURSIVE SplitFrom(_, _, _)
SplitFrom(s, cur, acc) ==
    IF s = <<>>
    THEN IF cur = <<>> THEN acc ELSE Append(acc, cur)
    ELSE IF Head(s) = " "
         THEN SplitFrom(Tail(s), <<>>, IF cur = <<>> THEN acc ELSE Append(acc, cur))
         ELSE SplitFrom(Tail(s), Append(cur, Head(s)), acc)

split(s) == SplitFrom(s, <<>>, <<>>)

(***************************************************************************)
(* Fragments: a literal string or a compiled node                          *)
(***************************************************************************)
Lit(s) == [kind |-> "str", str |-> s, nd |-> <<>>]
NodeFrag(n) == [kind |-> "node", str |-> <<>>, nd |-> n]

\* what compile_func(parser, token) returns when it succeeds
CompiledNode(command, tok) == <<command, tok.contents>>

\* one call of a compile function: the token it was given, how it ended
\* ("ok", or a TemplateSyntaxError the parser's compile_function_error hook
\* left "unhandled" or declared "handled") and the node it returned
Compilation(tok, result, nd) == [tok |-> tok, result |-> result, nd |-> nd]

\* bit.render(context) of a compiled node
NodeRender(n, context) == <<"<">> \o n[1] \o <<"|">> \o n[2] \o <<"@", context, ">">>

(***************************************************************************)
(* verbatim_tags: one action per branch of one loop iteration              *)
(***************************************************************************)
\* token = parser.tokens.pop(0) on an empty list
PopEmpty ==
    /\ pc = "loop"
    /\ tokens = <<>>
    /\ pc' = "failed"
    /\ error' = "IndexError"
    /\ UNCHANGED <<tokens, token, text_and_nodes, node, output, orig,
                   lookups, compiled, ate, call, ret>>

IsEnd(tok) == tok.contents = endtagname

\* if token.contents == endtagname: break ; return text_and_nodes
Break ==
    /\ pc = "loop"
    /\ tokens # <<>>
    /\ IsEnd(Head(tokens))
    /\ token' = <<Head(tokens)>>
    /\ tokens' = Tail(tokens)
    /\ pc' = "returned"
    /\ UNCHANGED <<text_and_nodes, node, error, output, orig,
                   lookups, compiled, ate, call, ret>>

VarToken ==
    /\ pc = "loop"
    /\ tokens # <<>>
    /\ ~IsEnd(Head(tokens))
    /\ Head(tokens).token_type = TOKEN_VAR
    /\ token' = <<Head(tokens)>>
    /\ tokens' = Tail(tokens)
    /\ text_and_nodes' = text_and_nodes
            \o << Lit(<<"{{">>), Lit(Head(tokens).contents), Lit(<<"}}">>) >>
    /\ UNCHANGED <<node, pc, error, output, orig, lookups, compiled, ate, call, ret>>

TextToken ==
    /\ pc = "loop"
    /\ tokens # <<>>
    /\ ~IsEnd(Head(tokens))
    /\ Head(tokens).token_type = TOKEN_TEXT
    /\ token' = <<Head(tokens)>>
    /\ tokens' = Tail(tokens)
    /\ text_and_nodes' = Append(text_and_nodes, Lit(Head(tokens).contents))
    /\ UNCHANGED <<node, pc, error, output, orig, lookups, compiled, ate, call, ret>>

\* a token of any other kind matches no branch and emits nothing
OtherToken ==
    /\ pc = "loop"
    /\ tokens # <<>>
    /\ ~IsEnd(Head(tokens))
    /\ Head(tokens).token_type \notin {TOKEN_VAR, TOKEN_TEXT, TOKEN_BLOCK}
    /\ token' = <<Head(tokens)>>
    /\ tokens' = Tail(tokens)
    /\ UNCHANGED <<text_and_nodes, node, pc, error, output, orig,
                   lookups, compiled, ate, call, ret>>

IsBlock ==
    /\ pc = "loop"
    /\ tokens # <<>>
    /\ ~IsEnd(Head(tokens))
    /\ Head(tokens).token_type = TOKEN_BLOCK

\* BlockEmpty with the IndexError swallowed: the loop goes on
BlockEmpty_Swallowed ==
    /\ IsBlock
    /\ split(Head(tokens).contents) = <<>>
    /\ token' = <<Head(tokens)>>
    /\ tokens' = Tail(tokens)
    /\ UNCHANGED <<pc, error, text_and_nodes, node, output, orig, lookups,
                   compiled, ate, call, ret>>

\* split()[0] raises IndexError; parser.empty_block_tag(token) raises
BlockEmpty ==
    /\ IsBlock
    /\ split(Head(tokens).contents) = <<>>
    /\ token' = <<Head(tokens)>>
    /\ tokens' = Tail(tokens)
    /\ pc' = "failed"
    /\ error' = "EmptyBlockTag"
    /\ UNCHANGED <<text_and_nodes, node, output, orig, lookups, compiled, ate, call, ret>>

\* BlockInvalid with the unknown name emitted as text instead of rejected
BlockInvalid_Emitted ==
    /\ IsBlock
    /\ split(Head(tokens).contents) # <<>>
    /\ LET command == split(Head(tokens).contents)[1]
       IN  /\ command \notin tags
           /\ lookups' = Append(lookups, command)
    /\ token' = <<Head(tokens)>>
    /\ tokens' = Tail(tokens)
    /\ text_and_nodes' = Append(text_and_nodes, Lit(Head(tokens).contents))
    /\ UNCHANGED <<pc, error, node, output, orig, compiled, ate, call, ret>>

\* parser.tags[command] raises KeyError; parser.invalid_block_tag raises
BlockInvalid ==
    /\ IsBlock
    /\ split(Head(tokens).contents) # <<>>
    /\ LET command == split(Head(tokens).contents)[1]
       IN  /\ command \notin tags
           /\ lookups' = Append(lookups, command)
    /\ token' = <<Head(tokens)>>
    /\ tokens' = Tail(tokens)
    /\ pc' = "failed"
    /\ error' = "InvalidBlockTag"
    /\ UNCHANGED <<text_and_nodes, node, output, orig, compiled, ate, call, ret>>

\* the tokens a compile function may take from the stream while compiling
CompilerTakes == { n \in 0..1 : n <= Len(tokens) - 1 }

RECURSIVE Drop(_, _)
Drop(s, n) == IF n = 0 THEN s ELSE Drop(Tail(s), n - 1)

\* BlockCompiled with the token's text appended in place of the node
BlockCompiled_TextAppended ==
    /\ IsBlock
    /\ split(Head(tokens).contents) # <<>>
    /\ LET command == split(Head(tokens).contents)[1]
           n == CompiledNode(command, Head(tokens))
       IN  /\ command \in tags
           /\ lookups' = Append(lookups, command)
           /\ compiled' = Append(compiled, Compilation(Head(tokens), "ok", <<n>>))
           /\ node' = <<n>>
           /\ text_and_nodes' = Append(text_and_nodes, Lit(Head(tokens).contents))
    /\ token' = <<Head(tokens)>>
    /\ \E k \in CompilerTakes :
          /\ tokens' = Drop(Tail(tokens), k)
          /\ ate' = (ate \/ k > 0)
    /\ UNCHANGED <<pc, error, output, orig, call, ret>>

\* node = compile_func(parser, token) succeeds; text_and_nodes.append(node)
BlockCompiled ==
    /\ IsBlock
    /\ split(Head(tokens).contents) # <<>>
    /\ LET command == split(Head(tokens).contents)[1]
           n == CompiledNode(command, Head(tokens))
       IN  /\ command \in tags
           /\ lookups' = Append(lookups, command)
           /\ compiled' = Append(compiled, Compilation(Head(tokens), "ok", <<n>>))
           /\ node' = <<n>>
           /\ text_and_nodes' = Append(text_and_nodes, NodeFrag(n))
    /\ token' = <<Head(tokens)>>
    /\ \E k \in CompilerTakes :
          /\ tokens' = Drop(Tail(tokens), k)
          /\ ate' = (ate \/ k > 0)
    /\ UNCHANGED <<pc, error, output, orig, call, ret>>

\* compile_func raises TemplateSyntaxError and
\* parser.compile_function_error(token, e) is false: raise
BlockCompileError ==
    /\ IsBlock
    /\ split(Head(tokens).contents) # <<>>
    /\ LET command == split(Head(tokens).contents)[1]
       IN  /\ command \in tags
           /\ lookups' = Append(lookups, command)
           /\ compiled' = Append(compiled, Compilation(Head(tokens), "unhandled", <<>>))
    /\ token' = <<Head(tokens)>>
    /\ tokens' = Tail(tokens)
    /\ pc' = "failed"
    /\ error' = "TemplateSyntaxError"
    /\ UNCHANGED <<text_and_nodes, node, output, orig, ate, call, ret>>

\* compile_func raises TemplateSyntaxError and
\* parser.compile_function_error(token, e) is true: the except clause ends
\* without binding node, then text_and_nodes.append(node) reads it
BlockCompileHandled ==
    /\ IsBlock
    /\ split(Head(tokens).contents) # <<>>
    /\ LET command == split(Head(tokens).contents)[1]
       IN  /\ command \in tags
           /\ lookups' = Append(lookups, command)
           /\ compiled' = Append(compiled, Compilation(Head(tokens), "handled", <<>>))
    /\ token' = <<Head(tokens)>>
    /\ tokens' = Tail(tokens)
    /\ IF node = <<>>
       THEN /\ pc' = "failed"
            /\ error' = "UnboundLocalError"
            /\ UNCHANGED text_and_nodes
       ELSE /\ text_and_nodes' = Append(text_and_nodes, NodeFrag(node[1]))
            /\ UNCHANGED <<pc, error>>
    /\ UNCHANGED <<node, output, orig, ate, call, ret>>

(***************************************************************************)
(* VerbatimNode.render                                                     *)
(***************************************************************************)
RECURSIVE render(_, _)
render(bits, context) ==
    IF bits = <<>> THEN <<>>
    ELSE (IF Head(bits).kind = "str"
          THEN Head(bits).str
          ELSE NodeRender(Head(bits).nd, context))
         \o render(Tail(bits), context)

\* verbatim() wraps the fragments in a VerbatimNode, which is then rendered
Render ==
    /\ pc = "returned"
    /\ \E context \in Contexts :
          output' = <<context, render(text_and_nodes, context)>>
    /\ pc' = "rendered"
    /\ UNCHANGED <<tokens, token, text_and_nodes, node, error, orig,
                   lookups, compiled, ate, call, ret>>

VInit ==
    /\ tokens \in SeqsUpTo(TokenSet, MaxTokens)
    /\ orig = tokens
    /\ token = <<>>
    /\ text_and_nodes = <<>>
    /\ node = <<>>
    /\ pc = "loop"
    /\ error = "none"
    /\ output = <<>>
    /\ lookups = <<>>
    /\ compiled = <<>>
    /\ ate = FALSE

Init ==
    /\ VInit
    /\ call = <<>>
    /\ ret = <<>>

Next ==
    \/ PopEmpty
    \/ Break
    \/ VarToken
    \/ TextToken
    \/ OtherToken
    \/ BlockEmpty
    \/ BlockInvalid
    \/ BlockCompiled
    \/ BlockCompileError
    \/ BlockCompileHandled
    \/ Render

Spec == Init /\ [][Next]_vars

(***************************************************************************)
(* Python values handed to the simple tags                                 *)
(***************************************************************************)
PyBool(b) == [kind |-> "bool", b |-> b, s |-> <<>>, i |-> 0]
PyStr(s) == [kind |-> "str", b |-> FALSE, s |-> s, i |-> 0]
PyInt(i) == [kind |-> "int", b |-> FALSE, s |-> <<>>, i |-> i]
PyNone == [kind |-> "none", b |-> FALSE, s |-> <<>>, i |-> 0]
PyFloat == [kind |-> "float", b |-> FALSE, s |-> <<>>, i |-> 1]
PyList == [kind |-> "list", b |-> FALSE, s |-> <<>>, i |-> 1]

\* the truth value Python's "if v:" gives
truthy(v) ==
    CASE v.kind = "bool" -> v.b
      [] v.kind = "str" -> v.s # <<>>
      [] v.kind = "int" -> v.i # 0
      [] v.kind = "none" -> FALSE
      [] OTHER -> TRUE

\* str.lower() on one character
LowerChar(c) ==
    CASE c = "T" -> "t"
      [] c = "R" -> "r"
      [] c = "U" -> "u"
      [] c = "E" -> "e"
      [] c = "N" -> "n"
      [] c = "O" -> "o"
      [] OTHER -> c

lower(s) == [k \in 1..Len(s) |-> LowerChar(s[k])]

\* _boolean comparing the string without lower()
_boolean_CaseSensitive(value) ==
    IF value.kind = "bool" THEN value.b
    ELSE IF value.kind = "str" THEN value.s = <<"t", "r", "u", "e">>
    ELSE IF value.kind = "int" THEN value.i # 0
    ELSE FALSE

_boolean(value) ==
    IF value.kind = "bool" THEN value.b
    ELSE IF value.kind = "str" THEN lower(value.s) = <<"t", "r", "u", "e">>
    ELSE IF value.kind = "int" THEN value.i # 0
    ELSE FALSE

\* the flag values a template can pass
FlagValues ==
    { PyBool(TRUE), PyBool(FALSE),
      PyStr(<<"T", "r", "u", "e">>), PyStr(<<"t", "r", "u", "e">>),
      PyStr(<<"T", "R", "U", "E">>), PyStr(<<"n", "o">>), PyStr(<<>>),
      PyInt(-1), PyInt(0), PyInt(1), PyInt(2),
      PyNone, PyFloat, PyList }

(***************************************************************************)
(* javascript and js_lib                                                   *)
(***************************************************************************)
\* str.split('?'): the pieces between the separators, empty ones included
RECURSIVE SplitOn(_, _, _, _)
SplitOn(s, sep, cur, acc) ==
    IF s = <<>> THEN Append(acc, cur)
    ELSE IF Head(s) = sep
         THEN SplitOn(Tail(s), sep, <<>>, Append(acc, cur))
         ELSE SplitOn(Tail(s), sep, Append(cur, Head(s)), acc)

Contains(s, c) == \E k \in 1..Len(s) : s[k] = c

\* staticfiles_storage.url(name)
staticfiles_url(name) == <<"/static/">> \o name

Ok(val) == [exc |-> "none", val |-> val]
Raises(exc) == [exc |-> exc, val |-> <<>>]

\* ' async' % async: a format without conversions rejects a non-mapping argument
FormatAsync(async) ==
    IF async.kind \in {"bool", "str", "int", "none", "float", "list"}
    THEN Raises("TypeError")
    ELSE Ok(<<" async">>)

javascript(filename, type, charset, async) ==
    LET parts == SplitOn(filename, "?", <<>>, <<>>)
        js_file == IF Contains(filename, "?") /\ Len(parts) = 2
                   THEN parts[1] \o <<"?">> \o parts[2]
                   ELSE filename
        src == <<"src=\"">> \o staticfiles_url(js_file) \o <<"\"">>
        attrs == src
                 \o (IF truthy(type)
                     THEN <<" type=\"text/">> \o type.s \o <<"\"">> ELSE <<>>)
                 \o (IF truthy(charset)
                     THEN <<" charset=\"">> \o charset.s \o <<"\"">> ELSE <<>>)
    IN  IF truthy(async)
        THEN FormatAsync(async)
        ELSE Ok(<<"<script ">> \o attrs \o <<"></script>">>)

js_lib(filename) == javascript(<<"js/libs/">> \o filename, PyNone, PyNone, PyBool(FALSE))

JQUERY_VERSION == <<"JQUERY_VERSION">>
JQUERY_MIGRATE_VERSION == <<"JQUERY_MIGRATE_VERSION">>

jquery_js(version, migrate, DEBUG) ==
    LET v == IF truthy(version) THEN version.s ELSE JQUERY_VERSION
        suffix == IF ~DEBUG THEN <<".min">> ELSE <<>>
        first == js_lib(<<"jquery-">> \o v \o suffix \o <<".js">>).val
        second == js_lib(<<"jquery-migrate-">> \o JQUERY_MIGRATE_VERSION
                         \o suffix \o <<".js">>).val
    IN  IF _boolean(migrate) THEN first \o <<"\n">> \o second ELSE first

django_js(jquery, i18n, csrf, init, DEBUG) ==
    [minified |-> ~DEBUG, jquery |-> _boolean(jquery), i18n |-> _boolean(i18n),
     csrf |-> _boolean(csrf), init |-> _boolean(init)]

django_js_init(jquery, i18n, csrf, init) ==
    [jquery |-> _boolean(jquery), i18n |-> _boolean(i18n),
     csrf |-> _boolean(csrf), init |-> _boolean(init)]

(***************************************************************************)
(* Calls of the simple tags                                                *)
(***************************************************************************)
Filenames ==
    { <<"app.js">>, <<"app.js", "?", "v=1">>, <<"a", "?", "b", "?", "c">>, <<"?">> }

TypeValues == { PyNone, PyStr(<<>>), PyStr(<<"javascript">>), PyStr(<<"coffeescript">>) }

CharsetValues == { PyNone, PyStr(<<>>), PyStr(<<"utf-8">>) }

AsyncValues == { PyBool(FALSE), PyBool(TRUE), PyNone, PyStr(<<"t", "r", "u", "e">>),
                 PyInt(0), PyInt(1) }

VersionValues == { PyNone, PyStr(<<>>), PyStr(<<"1.8">>) }

\* the arguments the inclusion tags are called with in the model
TagFlagValues ==
    { PyBool(TRUE), PyBool(FALSE), PyStr(<<"T", "r", "u", "e">>),
      PyStr(<<"n", "o">>), PyInt(0), PyInt(1), PyNone }

JavascriptCall ==
    /\ call # <<>>
    /\ ret = <<>>
    /\ call[1] = "javascript"
    /\ ret' = <<javascript(call[2], call[3], call[4], call[5])>>
    /\ UNCHANGED <<call, vvars>>

BooleanCall ==
    /\ call # <<>>
    /\ ret = <<>>
    /\ call[1] = "_boolean"
    /\ ret' = <<_boolean(call[2])>>
    /\ UNCHANGED <<call, vvars>>

JqueryJsCall ==
    /\ call # <<>>
    /\ ret = <<>>
    /\ call[1] = "jquery_js"
    /\ ret' = <<jquery_js(call[2], call[3], call[4])>>
    /\ UNCHANGED <<call, vvars>>

DjangoJsCall ==
    /\ call # <<>>
    /\ ret = <<>>
    /\ call[1] = "django_js"
    /\ ret' = <<django_js(call[2], call[3], call[4], call[5], call[6])>>
    /\ UNCHANGED <<call, vvars>>

DjangoJsInitCall ==
    /\ call # <<>>
    /\ ret = <<>>
    /\ call[1] = "django_js_init"
    /\ ret' = <<django_js_init(call[2], call[3], call[4], call[5])>>
    /\ UNCHANGED <<call, vvars>>

TagCalls ==
    { <<"javascript", f, t, c, a>> :
          f \in Filenames, t \in TypeValues, c \in CharsetValues, a \in AsyncValues }
    \cup { <<"_boolean", v>> : v \in FlagValues }
    \cup { <<"jquery_js", v, m, d>> :
          v \in VersionValues, m \in FlagValues, d \in BOOLEAN }
    \cup { <<"django_js", j, i, c, n, d>> :
          j \in TagFlagValues, i \in TagFlagValues, c \in TagFlagValues,
          n \in TagFlagValues, d \in BOOLEAN }
    \cup { <<"django_js_init", j, i, c, n>> :
          j \in FlagValues, i \in TagFlagValues, c \in TagFlagValues,
          n \in TagFlagValues }

TagsInit ==
    /\ call \in TagCalls
    /\ ret = <<>>
    /\ tokens = <<>>
    /\ orig = <<>>
    /\ token = <<>>
    /\ text_and_nodes = <<>>
    /\ node = <<>>
    /\ pc = "idle"
    /\ error = "none"
    /\ output = <<>>
    /\ lookups = <<>>
    /\ compiled = <<>>
    /\ ate = FALSE

TagsNext ==
    \/ JavascriptCall
    \/ BooleanCall
    \/ JqueryJsCall
    \/ DjangoJsCall
    \/ DjangoJsInitCall

SpecTags == TagsInit /\ [][TagsNext]_vars

(***************************************************************************)
(* Properties                                                              *)
(***************************************************************************)
\* the terminator as the specification defines it
IsTerminator(tok) == tok.token_type = TOKEN_BLOCK /\ tok.contents = endtagname

\* position of the first terminator of a stream, 0 when it has none
FirstTerminator(s) ==
    IF \E k \in 1..Len(s) : IsTerminator(s[k])
    THEN CHOOSE k \in 1..Len(s) :
             IsTerminator(s[k]) /\ \A j \in 1..(k - 1) : ~IsTerminator(s[j])
    ELSE 0

Returned == pc \in {"returned", "rendered"}

Last(s) == s[Len(s)]

\* C1: extraction stops only at a BLOCK token whose payload equals the end
\* marker; a TEXT or VARIABLE token with that payload does not end it.
C1_StopsOnlyAtBlockTerminator ==
    Returned => IsTerminator(token[1])

\* what the specification has each TEXT or VARIABLE token emit
Emission(tok) ==
    IF tok.token_type = TOKEN_VAR
    THEN << Lit(<<"{{">>), Lit(tok.contents), Lit(<<"}}">>) >>
    ELSE << Lit(tok.contents) >>

RECURSIVE Emissions(_)
Emissions(s) == IF s = <<>> THEN <<>> ELSE Emission(Head(s)) \o Emissions(Tail(s))

OnlyTextAndVarBefore(s, k) ==
    \A j \in 1..(k - 1) : s[j].token_type \in {TOKEN_TEXT, TOKEN_VAR}

\* C2: for a stream whose tokens before the terminator are only TEXT and
\* VARIABLE tokens, the returned fragments are the in-order concatenation of
\* the per-token emissions of those tokens.
C2_TextAndVarEmissions ==
    (/\ Returned
     /\ FirstTerminator(orig) > 0
     /\ OnlyTextAndVarBefore(orig, FirstTerminator(orig)))
    => text_and_nodes = Emissions(SubSeq(orig, 1, FirstTerminator(orig) - 1))

\* C3: on a successful return (no compile function having taken tokens) the
\* stream left is exactly what followed the first terminator of the original.
C3_StreamAfterTerminator ==
    (Returned /\ ~ate)
    => /\ FirstTerminator(orig) > 0
       /\ tokens = SubSeq(orig, FirstTerminator(orig) + 1, Len(orig))

\* the step handles the token at the front of the stream
Handles(tok) == pc = "loop" /\ tokens # <<>> /\ Head(tokens) = tok /\ token' = <<tok>>

OnlyBlanks(s) == \A k \in 1..Len(s) : s[k] = " "

\* the first blank-delimited word of a payload that has one
RECURSIVE FirstWord(_)
FirstWord(s) ==
    IF s = <<>> THEN <<>>
    ELSE IF Head(s) = " " THEN FirstWord(Tail(s))
    ELSE IF Len(s) = 1 \/ s[2] = " " THEN <<Head(s)>>
    ELSE <<Head(s)>> \o FirstWord(Tail(s))

RECURSIVE Concat(_)
Concat(ss) == IF ss = <<>> THEN <<>> ELSE Head(ss) \o Concat(Tail(ss))

\* C4: a non-terminator BLOCK token whose first word is registered and whose
\* compile function returns node X adds exactly the one fragment X at the end
\* of the fragment sequence, and rendering yields, fragment by fragment in
\* order, X.render(context) for a node and the literal itself for a literal.
C4_CompiledNodeEmittedAndRendered ==
    [][ /\ \A tok \in TokenSet :
              (/\ Handles(tok)
               /\ tok.token_type = TOKEN_BLOCK
               /\ tok.contents # endtagname
               /\ ~OnlyBlanks(tok.contents)
               /\ FirstWord(tok.contents) \in tags
               /\ Len(compiled') = Len(compiled) + 1
               /\ Last(compiled').result = "ok")
              => /\ Last(compiled').tok = tok
                 /\ text_and_nodes' =
                        Append(text_and_nodes,
                               [kind |-> "node", str |-> <<>>,
                                nd |-> Last(compiled').nd[1]])
        /\ (pc = "returned" /\ pc' = "rendered")
              => output'[2] =
                    Concat([k \in 1..Len(text_and_nodes) |->
                               IF text_and_nodes[k].kind = "node"
                               THEN NodeRender(text_and_nodes[k].nd, output'[1])
                               ELSE text_and_nodes[k].str])
      ]_vars

C4_Witness ==
    /\ pc = "rendered"
    /\ Len(text_and_nodes) = 2
    /\ text_and_nodes[1].kind = "str"
    /\ text_and_nodes[2].kind = "node"
    /\ Len(compiled) = 1
    /\ compiled[1].result = "ok"
    /\ compiled[1].tok = Token(TOKEN_BLOCK, <<"csrf_token">>)
    /\ output[2] = <<"a">> \o NodeRender(compiled[1].nd[1], output[1])

\* C5: when a compile function raises a syntax error, extraction fails with
\* that error iff the parser's hook does not declare it handled; when the hook
\* declares it handled, extraction goes on with the next token and emits
\* nothing for this one.
C5_HandledErrorSwallowed ==
    [][ Len(compiled') = Len(compiled) + 1
        => /\ (Last(compiled').result = "unhandled")
                 <=> (pc' = "failed" /\ error' = "TemplateSyntaxError")
           /\ (Last(compiled').result = "handled")
                 => (pc' = "loop" /\ text_and_nodes' = text_and_nodes)
      ]_vars

\* extraction ended at a BLOCK token that failed
FailedAtBlock ==
    error \in {"EmptyBlockTag", "InvalidBlockTag", "TemplateSyntaxError",
               "UnboundLocalError"}

\* C6: extraction of a stream without a terminator (and without a failing
\* BLOCK token) consumes every token and then ends in a failure; it never
\* returns a fragment sequence.
C6_UnterminatedFails ==
    (FirstTerminator(orig) = 0 /\ pc # "loop" /\ ~FailedAtBlock)
    => (pc = "failed" /\ tokens = <<>>)

\* C7: a non-terminator BLOCK token whose payload has no word makes extraction
\* fail with the empty-block-tag error; nothing is emitted, looked up or
\* compiled for it, and no fragment sequence is returned.
C7_EmptyBlockFails ==
    [][ \A tok \in TokenSet :
           (/\ Handles(tok)
            /\ tok.token_type = TOKEN_BLOCK
            /\ tok.contents # endtagname
            /\ OnlyBlanks(tok.contents))
           => /\ pc' = "failed"
              /\ error' = "EmptyBlockTag"
              /\ text_and_nodes' = text_and_nodes
              /\ lookups' = lookups
              /\ compiled' = compiled
      ]_vars

C7_Witness ==
    /\ pc = "failed"
    /\ error = "EmptyBlockTag"
    /\ token = <<Token(TOKEN_BLOCK, <<" ">>)>>
    /\ Len(text_and_nodes) = 1
    /\ Len(compiled) = 1

\* C8: a non-terminator BLOCK token whose first word is not registered makes
\* extraction fail with the invalid-block-tag error; no compile function is
\* called, nothing is emitted for it, and no fragment sequence is returned.
C8_UnknownTagFails ==
    [][ \A tok \in TokenSet :
           (/\ Handles(tok)
            /\ tok.token_type = TOKEN_BLOCK
            /\ tok.contents # endtagname
            /\ ~OnlyBlanks(tok.contents)
            /\ FirstWord(tok.contents) \notin tags)
           => /\ pc' = "failed"
              /\ error' = "InvalidBlockTag"
              /\ text_and_nodes' = text_and_nodes
              /\ compiled' = compiled
      ]_vars

C8_Witness ==
    /\ pc = "failed"
    /\ error = "InvalidBlockTag"
    /\ token = <<Token(TOKEN_BLOCK, <<"nope">>)>>
    /\ Len(text_and_nodes) = 3
    /\ compiled = <<>>

\* C9: javascript never fails and returns '<script src="URL"', then the type
\* attribute iff a type is given, the charset attribute iff a charset is given
\* and the async attribute iff the async flag is true, then '></script>'.
C9_ScriptTag ==
    (call # <<>> /\ call[1] = "javascript" /\ ret # <<>>)
    => /\ ret[1].exc = "none"
       /\ ret[1].val =
             <<"<script ", "src=\"">> \o staticfiles_url(call[2]) \o <<"\"">>
             \o (IF truthy(call[3])
                 THEN <<" type=\"text/">> \o call[3].s \o <<"\"">> ELSE <<>>)
             \o (IF truthy(call[4])
                 THEN <<" charset=\"">> \o call[4].s \o <<"\"">> ELSE <<>>)
             \o (IF truthy(call[5]) THEN <<" async">> ELSE <<>>)
             \o <<"></script>">>

\* the string is "true" in some mix of upper and lower case
IsTrueWord(s) ==
    /\ Len(s) = 4
    /\ s[1] \in {"t", "T"}
    /\ s[2] \in {"r", "R"}
    /\ s[3] \in {"u", "U"}
    /\ s[4] \in {"e", "E"}

\* the coercion the specification describes
Coerced(v) ==
    CASE v.kind = "bool" -> v.b
      [] v.kind = "str" -> IsTrueWord(v.s)
      [] v.kind = "int" -> v.i # 0
      [] OTHER -> FALSE

\* C10: _boolean returns the value itself for a boolean, (lower-cased value =
\* "true") for a string, (value != 0) for an integer and false for anything
\* else; "True" and 1 give true, "no", 0 and None give false; django_js,
\* django_js_init and the migrate decision of jquery_js use these values.
C10_BooleanCoercion ==
    (call # <<>> /\ ret # <<>>)
    => /\ call[1] = "_boolean"
            => /\ ret[1] = Coerced(call[2])
               /\ call[2] = PyStr(<<"T", "r", "u", "e">>) => ret[1] = TRUE
               /\ call[2] = PyStr(<<"n", "o">>) => ret[1] = FALSE
               /\ call[2] = PyInt(0) => ret[1] = FALSE
               /\ call[2] = PyInt(1) => ret[1] = TRUE
               /\ call[2] = PyNone => ret[1] = FALSE
       /\ call[1] = "jquery_js"
            => (Contains(ret[1], "jquery-migrate-") <=> Coerced(call[3]))
       /\ call[1] = "django_js"
            => /\ ret[1].jquery = Coerced(call[2])
               /\ ret[1].i18n = Coerced(call[3])
               /\ ret[1].csrf = Coerced(call[4])
               /\ ret[1].init = Coerced(call[5])
       /\ call[1] = "django_js_init"
            => /\ ret[1].jquery = Coerced(call[2])
               /\ ret[1].i18n = Coerced(call[3])
               /\ ret[1].csrf = Coerced(call[4])
               /\ ret[1].init = Coerced(call[5])

C10_Witness ==
    /\ call # <<>>
    /\ ret # <<>>
    /\ call[1] = "django_js"
    /\ call[2] = PyStr(<<"T", "r", "u", "e">>)
    /\ call[3] = PyStr(<<"n", "o">>)
    /\ call[4] = PyInt(1)
    /\ call[5] = PyNone
    /\ ret[1].jquery = TRUE
    /\ ret[1].i18n = FALSE
    /\ ret[1].csrf = TRUE
    /\ ret[1].init = FALSE

====
